---------------------------- MODULE Spec2Model ----------------------------
(*
  Model of the fixed-capacity object pool of src/src/memory_pool.cpp
  (MemoryPoolBase): one aligned block of max_entries_ * entry_size_ bytes,
  an intrusive free list whose links are index words stored in the first
  bytes of the free slots, a counter of free entries and a pointer to the
  first free slot.

  The block is modelled byte by byte; the link word is written and read as
  WordBytes little-endian bytes.  Addresses are natural numbers, NULL is 0.
  Besides the program's fields the module carries the caller's view of the
  pool (which addresses it holds and what it stored there) and a few
  history variables that record the calls the properties speak about.
*)
EXTENDS Integers, Sequences, FiniteSets, TLC

\* ------------------------------------------------------------------
\* Bounds of the model
\* ------------------------------------------------------------------

\* Largest capacity (max_entries) a pool is constructed with.
MaxEntries == 2

\* The block base is one of the first MaxBase multiples of MIN_BLOCK_ALIGN.
MaxBase == 1

\* Consecutive failed allocate() calls that the history counter tells apart.
MaxFail == 2

\* Deallocations of an address the caller does not hold (SpecMisuse only).
MaxMisuse == 1

\* ------------------------------------------------------------------
\* Program constants
\* ------------------------------------------------------------------

MIN_BLOCK_ALIGN == 64

\* sizeof(MemoryPoolBase::uint_t) in bytes.  Every uint_t value of the model
\* (indices, counts, byte offsets, stored words) stays far below 2^31, so
\* the reduction of uint_t arithmetic modulo 2^32 never applies and is not
\* written out.
WordBytes == 4

NULL == 0

\* Entry sizes the pools of the model are constructed with (sizeof(T) of
\* the typed pool; the tests use uint32_t): one entry that is exactly the
\* link word, one that is larger.  Entries smaller than the link word are
\* not constructed by Init.
EntrySizes == {4, 8}

\* Values the caller stores into the entries it holds: one that reads as a
\* small index and one (0x01010101) that reads as a wild index.
Vals == {1, 16843009}

\* Entry sizes smaller than the link word (SpecSizes only).
SmallEntrySizes == {1, 2}

\* What the bytes of a freshly obtained block hold before the constructor
\* writes the links (never read by the pool).
JunkBytes == {165}

\* The caller has stored nothing yet; a stored value v is kept as <<v>>.
NoVal == << >>

VARIABLES
    max_entries_,       \* capacity, fixed at construction
    entry_size_,        \* bytes per entry, fixed at construction
    num_free_entries_,  \* number of free entries
    pool_mem_,          \* address of the block
    next_free_,         \* address of the first free entry, NULL if none
    mem,                \* the block: byte offset -> byte
    status,             \* "live", "aborted" (failed assert), "ub", "destroyed"
    lastOp,             \* the last pool call: "construct", "allocate", "deallocate", "destroy"
    ret,                \* its result if it was allocate(), else NULL
    lastArg,            \* its argument if it was deallocate(), else NULL
    held,               \* caller's view: held address -> <<value stored there>>, or NoVal
    cyc,                \* history: "fill", "drain", "refill" or "mixed"
    run,                \* history: results of the allocate() calls of a fill/refill
    freedRun,           \* history: addresses of the current run of deallocate() calls
    reallocRun,         \* history: results of the allocate() calls following that run
    nfail,              \* history: consecutive failed allocate() calls (saturating)
    snap,               \* history: pool fields before the first of those calls
    misuse,             \* history: number of deallocations of addresses not held
    s_head,             \* reference pool: index of the first free entry, or capacity
    s_count,            \* reference pool: number of free entries
    s_next,             \* reference pool: free entry's index -> stored next index
    s_ret,              \* reference pool: result of its last call, as for ret
    pc,                 \* typed pool: <<"idle">>, or the rest of the call under way
    freed_blocks,       \* number of free_block() calls made on the block
    spill               \* offsets of bytes a link store wrote outside its own entry

prog == <<max_entries_, entry_size_, num_free_entries_, pool_mem_, next_free_, mem, status>>
hist == <<ret, lastOp, lastArg, held, cyc, run, freedRun, reallocRun, nfail, snap, misuse>>
ref == <<s_head, s_count, s_next, s_ret>>
env == <<pc, freed_blocks, spill>>
vars == <<prog, hist, ref, env>>

\* ------------------------------------------------------------------
\* Memory
\* ------------------------------------------------------------------

Pow256(k) == IF k = 0 THEN 1 ELSE IF k = 1 THEN 256 ELSE IF k = 2 THEN 65536
             ELSE 16777216

\* Byte k of the little-endian representation of w.
ByteOf(w, k) == IF k >= WordBytes THEN 0 ELSE (w \div Pow256(k)) % 256

\* *reinterpret_cast<uint_t *>(block + off) = w
WriteWord(m, off, w) ==
    [b \in DOMAIN m |-> IF b >= off /\ b < off + WordBytes THEN ByteOf(w, b - off) ELSE m[b]]

\* *reinterpret_cast<uint_t *>(block + off)
ReadWord(m, off) ==
    m[off] + 256 * m[off + 1] + 65536 * m[off + 2] + 16777216 * m[off + 3]

BlockSize == max_entries_ * entry_size_

\* The offsets of the bytes a word store at off touches, and those of them
\* that lie outside the entry of the given size that starts at off.
LinkBytes(off) == off .. off + WordBytes - 1

LinkSpill(off, size) == LinkBytes(off) \ (off .. off + size - 1)

\* ------------------------------------------------------------------
\* MemoryPoolBase
\* ------------------------------------------------------------------

element_at(index) == pool_mem_ + (index * entry_size_)

\* Variant: the byte offset is not divided by the entry size.
index_of_bytes(ptr) == ptr - pool_mem_

index_of(ptr) == (ptr - pool_mem_) \div entry_size_

\* Variant: the free count is reported as the allocation count.
get_stats_free ==
    [block_count |-> 1, allocation_count |-> num_free_entries_]

get_stats ==
    [block_count |-> 1,
     allocation_count |-> max_entries_ - num_free_entries_]

\* malloc_block(block_size, alignment): the addresses posix_memalign may
\* return on success, multiples of the alignment.
malloc_block_unaligned(block_size, alignment) == {k * 16 : k \in 1 .. MaxBase}

malloc_block(block_size, alignment) == {k * alignment : k \in 1 .. MaxBase}

\* Variant: the loop stores i, not i + 1.
RECURSIVE InitFreeList_own_index(_, _, _, _)
InitFreeList_own_index(m, size, n, from) ==
    IF from >= n THEN m
    ELSE InitFreeList_own_index(WriteWord(m, from * size, from), size, n, from + 1)

\* The constructor's loop: *element_at(i) = i + 1 for i = from .. n-1.
RECURSIVE InitFreeList(_, _, _, _)
InitFreeList(m, size, n, from) ==
    IF from >= n THEN m
    ELSE InitFreeList(WriteWord(m, from * size, from + 1), size, n, from + 1)

\* A word can be read or written at ptr inside the block.
Deref(ptr) == ptr >= pool_mem_ /\ ptr + WordBytes <= pool_mem_ + BlockSize

\* Variant: no branch for the last free entry, which is never handed out.
allocate_no_last ==
    IF num_free_entries_ > 1
    THEN [ret |-> next_free_,
          num |-> num_free_entries_ - 1,
          next |-> element_at(ReadWord(mem, next_free_ - pool_mem_))]
    ELSE [ret |-> NULL, num |-> num_free_entries_, next |-> next_free_]

\* Variant: the next free entry is taken to be the one after the returned
\* entry instead of the one its link names.
allocate_bump ==
    IF num_free_entries_ > 1
    THEN [ret |-> next_free_,
          num |-> num_free_entries_ - 1,
          next |-> next_free_ + entry_size_]
    ELSE IF num_free_entries_ = 1
    THEN [ret |-> next_free_, num |-> 0, next |-> NULL]
    ELSE [ret |-> NULL, num |-> num_free_entries_, next |-> next_free_]

\* Variant: the count is decremented before the pool is found exhausted.
allocate_always_decrement ==
    IF num_free_entries_ > 1
    THEN [ret |-> next_free_,
          num |-> num_free_entries_ - 1,
          next |-> element_at(ReadWord(mem, next_free_ - pool_mem_))]
    ELSE IF num_free_entries_ = 1
    THEN [ret |-> next_free_, num |-> 0, next |-> NULL]
    ELSE [ret |-> NULL, num |-> num_free_entries_ - 1, next |-> next_free_]

\* Variant: the last free entry's link is read like any other, so the head
\* ends one past the block instead of null.
allocate_read_last ==
    IF num_free_entries_ >= 1
    THEN [ret |-> next_free_,
          num |-> num_free_entries_ - 1,
          next |-> element_at(ReadWord(mem, next_free_ - pool_mem_))]
    ELSE [ret |-> NULL, num |-> num_free_entries_, next |-> next_free_]

\* allocate(): the returned pointer and the fields after the call.
allocate ==
    IF num_free_entries_ > 1
    THEN [ret |-> next_free_,
          num |-> num_free_entries_ - 1,
          next |-> element_at(ReadWord(mem, next_free_ - pool_mem_))]
    ELSE IF num_free_entries_ = 1
    THEN [ret |-> next_free_, num |-> 0, next |-> NULL]
    ELSE [ret |-> NULL, num |-> num_free_entries_, next |-> next_free_]

\* Variant: the address one past the block passes the assert.
InBlock_inclusive_end(ptr) ==
    ptr >= pool_mem_ /\ ptr <= pool_mem_ + (entry_size_ * max_entries_)

\* The condition of deallocate()'s assert.
InBlock(ptr) == ptr >= pool_mem_ /\ ptr < pool_mem_ + (entry_size_ * max_entries_)

\* Variant: the head of a non-empty free list is not moved to ptr.
deallocate_keep_head(ptr) ==
    LET index == IF next_free_ # NULL THEN index_of(next_free_) ELSE max_entries_
    IN  [mem |-> WriteWord(mem, ptr - pool_mem_, index),
         next |-> IF next_free_ # NULL THEN next_free_ ELSE ptr,
         num |-> num_free_entries_ + 1]

\* Variant: the stored link is always the end mark.
deallocate_no_link(ptr) ==
    [mem |-> WriteWord(mem, ptr - pool_mem_, max_entries_),
     next |-> ptr,
     num |-> num_free_entries_ + 1]

\* Variant: the link is written at the start of the block, not at ptr.
deallocate_first_slot(ptr) ==
    LET index == IF next_free_ # NULL THEN index_of(next_free_) ELSE max_entries_
    IN  [mem |-> WriteWord(mem, 0, index),
         next |-> ptr,
         num |-> num_free_entries_ + 1]

\* Variant: the count of free entries is not incremented.
deallocate_no_count(ptr) ==
    LET index == IF next_free_ # NULL THEN index_of(next_free_) ELSE max_entries_
    IN  [mem |-> WriteWord(mem, ptr - pool_mem_, index),
         next |-> ptr,
         num |-> num_free_entries_]

\* deallocate(ptr) past its assert: the fields after the call.
deallocate(ptr) ==
    LET index == IF next_free_ # NULL THEN index_of(next_free_) ELSE max_entries_
    IN  [mem |-> WriteWord(mem, ptr - pool_mem_, index),
         next |-> ptr,
         num |-> num_free_entries_ + 1]

\* ------------------------------------------------------------------
\* Caller-side helpers
\* ------------------------------------------------------------------

Slots == {element_at(i) : i \in 0 .. max_entries_ - 1}

Live == DOMAIN held

Hold(h, p) == [a \in (DOMAIN h) \cup {p} |-> IF a = p THEN NoVal ELSE h[a]]

Release(h, p) == [a \in (DOMAIN h) \ {p} |-> h[a]]

Fields == [num |-> num_free_entries_, next |-> next_free_, mem |-> mem]

\* ------------------------------------------------------------------
\* Reference pool: the index-based free list with the end mark capacity
\* ------------------------------------------------------------------

address_of(i) == pool_mem_ + i * entry_size_

\* allocate(): null if no entry is free; else the entry at the head, the
\* head becomes its stored next, the count goes down by one. An occupied
\* entry stores no next: s_next is defined on the free entries.
spec_allocate ==
    IF s_count = 0
    THEN [ret |-> NULL, head |-> s_head, count |-> s_count, next |-> s_next]
    ELSE [ret |-> address_of(s_head),
          head |-> IF s_head \in DOMAIN s_next THEN s_next[s_head] ELSE s_head,
          count |-> s_count - 1,
          next |-> [i \in DOMAIN s_next \ {s_head} |-> s_next[i]]]

\* deallocate(ptr): the head is stored in the entry, the entry becomes the
\* head, the count goes up by one.
spec_deallocate(ptr) ==
    LET i == (ptr - pool_mem_) \div entry_size_
    IN  [next |-> [j \in DOMAIN s_next \cup {i} |-> IF j = i THEN s_head ELSE s_next[j]],
         head |-> i,
         count |-> s_count + 1]

spec_get_stats == [block_count |-> 1, allocation_count |-> max_entries_ - s_count]

\* ------------------------------------------------------------------
\* Initial state: a constructed pool
\* ------------------------------------------------------------------

NoSnap == [num |-> 0, next |-> NULL, mem |-> << >>]

\* The history of a pool on which no call was made yet.
FreshHistory ==
    /\ ret = NULL
    /\ lastOp = "construct"
    /\ lastArg = NULL
    /\ held = << >>
    /\ cyc = "fill"
    /\ run = << >>
    /\ freedRun = << >>
    /\ reallocRun = << >>
    /\ nfail = 0
    /\ snap = NoSnap
    /\ misuse = 0
    /\ s_head = 0
    /\ s_count = max_entries_
    /\ s_next = [i \in 0 .. max_entries_ - 1 |-> i + 1]
    /\ s_ret = NULL
    /\ pc = <<"idle">>
    /\ freed_blocks = 0

\* MemoryPoolBase(entry_size, max_entries) with entry_size among sizes and
\* a block that malloc_block could supply.
Constructed(sizes) ==
    /\ max_entries_ \in 1 .. MaxEntries
    /\ entry_size_ \in sizes
    /\ pool_mem_ \in malloc_block(max_entries_ * entry_size_, MIN_BLOCK_ALIGN)
    /\ num_free_entries_ = max_entries_
    /\ next_free_ = pool_mem_
    /\ \E j \in JunkBytes :
          mem = InitFreeList([b \in 0 .. max_entries_ * entry_size_ - 1 |-> j],
                             entry_size_, max_entries_, 0)
    /\ spill = UNION {LinkSpill(i * entry_size_, entry_size_) : i \in 0 .. max_entries_ - 1}
    /\ status = "live"
    /\ FreshHistory

Init == Constructed(EntrySizes)

\* The same with entries smaller than the link word among the sizes.
InitSizes == Constructed(EntrySizes \cup SmallEntrySizes)

\* MemoryPoolBase(entry_size, max_entries) when posix_memalign fails:
\* malloc_block returns nullptr, pool_mem_ and next_free_ are null, and the
\* loop's first store goes through element_at(0), the null pointer.
ConstructedNoBlock ==
    /\ max_entries_ \in 1 .. MaxEntries
    /\ entry_size_ \in EntrySizes
    /\ pool_mem_ = NULL
    /\ num_free_entries_ = max_entries_
    /\ next_free_ = NULL
    /\ mem = << >>
    /\ spill = {}
    /\ status = "ub"
    /\ FreshHistory

InitLife == Init \/ ConstructedNoBlock

\* ------------------------------------------------------------------
\* Actions
\* ------------------------------------------------------------------

\* An allocate() call whose result the caller keeps.
AllocateCall ==
    /\ status = "live"
    /\ IF num_free_entries_ > 1 /\ ~Deref(next_free_)
       THEN \* the link is read through a pointer outside the block
            /\ status' = "ub"
            /\ UNCHANGED <<max_entries_, entry_size_, num_free_entries_, pool_mem_,
                           next_free_, mem, hist, ref, spill>>
       ELSE LET r == allocate
                a == spec_allocate
            IN
            /\ num_free_entries_' = r.num
            /\ next_free_' = r.next
            /\ ret' = r.ret
            /\ lastOp' = "allocate"
            /\ held' = IF r.ret # NULL THEN Hold(held, r.ret) ELSE held
            /\ IF cyc \in {"fill", "refill"}
               THEN /\ cyc' = cyc
                    /\ run' = IF Len(run) <= max_entries_ THEN Append(run, r.ret) ELSE run
               ELSE IF cyc = "drain"
               THEN IF Live = {}
                    THEN cyc' = "refill" /\ run' = <<r.ret>>
                    ELSE cyc' = "mixed" /\ run' = << >>
               ELSE UNCHANGED <<cyc, run>>
            /\ lastArg' = NULL
            /\ IF Len(reallocRun) < Len(freedRun)
               THEN reallocRun' = Append(reallocRun, r.ret) /\ freedRun' = freedRun
               ELSE reallocRun' = << >> /\ freedRun' = << >>
            /\ IF r.ret = NULL
               THEN /\ nfail' = IF nfail < MaxFail THEN nfail + 1 ELSE nfail
                    /\ snap' = IF nfail = 0 THEN Fields ELSE snap
               ELSE /\ nfail' = 0
                    /\ snap' = snap
            /\ s_ret' = a.ret
            /\ s_head' = a.head
            /\ s_count' = a.count
            /\ s_next' = a.next
            /\ UNCHANGED <<max_entries_, entry_size_, pool_mem_, mem, status, misuse,
                           spill>>

\* The caller calls allocate() and keeps the result.
Allocate == AllocateCall /\ UNCHANGED <<pc, freed_blocks>>

\* The pool's part of a deallocate(ptr) call: the assert, then the body.
DeallocateCall(ptr) ==
    IF ~InBlock(ptr)
    THEN \* the assert fails
         /\ status' = "aborted"
         /\ UNCHANGED <<max_entries_, entry_size_, num_free_entries_, pool_mem_,
                        next_free_, mem, s_head, s_count, s_next, spill>>
    ELSE LET d == deallocate(ptr)
             a == spec_deallocate(ptr)
         IN
         /\ mem' = d.mem
         /\ next_free_' = d.next
         /\ num_free_entries_' = d.num
         /\ spill' = spill \cup LinkSpill(ptr - pool_mem_, entry_size_)
         /\ s_next' = a.next
         /\ s_head' = a.head
         /\ s_count' = a.count
         /\ UNCHANGED <<max_entries_, entry_size_, pool_mem_, status>>

\* deallocate(ptr) as the caller of an entry it holds sees it.
DeallocateHeld(ptr) ==
    /\ DeallocateCall(ptr)
    /\ lastOp' = "deallocate"
    /\ lastArg' = ptr
    /\ held' = Release(held, ptr)
    /\ cyc' = IF Cardinality(Live) = max_entries_ \/ cyc = "drain"
              THEN "drain" ELSE "mixed"
    /\ run' = << >>
    /\ freedRun' = IF lastOp = "deallocate" THEN Append(freedRun, ptr) ELSE <<ptr>>
    /\ reallocRun' = << >>
    /\ nfail' = 0
    /\ ret' = NULL
    /\ s_ret' = NULL
    /\ UNCHANGED <<snap, misuse>>

\* The caller gives back an entry it holds.
Deallocate ==
    /\ status = "live"
    /\ \E ptr \in Live : DeallocateHeld(ptr)
    /\ UNCHANGED <<pc, freed_blocks>>

\* The caller stores a 32-bit value at the start of an entry it holds (the
\* tests' *p of a uint32_t object); the other bytes of a larger entry stay
\* as they are.
Store ==
    /\ status = "live"
    /\ \E ptr \in Live, v \in Vals :
          /\ mem' = WriteWord(mem, ptr - pool_mem_, v)
          /\ held' = [held EXCEPT ![ptr] = <<v>>]
          /\ nfail' = 0
          /\ UNCHANGED <<max_entries_, entry_size_, num_free_entries_, pool_mem_,
                         next_free_, status, ret, lastOp, lastArg, cyc, run,
                         freedRun, reallocRun, snap, misuse, ref, env>>

\* Contract violation: the caller deallocates the address of an entry it
\* does not hold (freed already, or never allocated).
DeallocateNotHeld ==
    /\ status = "live"
    /\ misuse < MaxMisuse
    /\ \E ptr \in Slots \ Live :
          /\ DeallocateCall(ptr)
          /\ lastOp' = "deallocate"
          /\ lastArg' = ptr
          /\ misuse' = misuse + 1
          /\ nfail' = 0
          /\ ret' = NULL
          /\ s_ret' = NULL
          /\ UNCHANGED <<held, cyc, run, freedRun, reallocRun, snap, pc, freed_blocks>>

Next == Allocate \/ Deallocate \/ Store

Spec == Init /\ [][Next]_vars

NextMisuse == Allocate \/ Deallocate \/ Store \/ DeallocateNotHeld

SpecMisuse == Init /\ [][NextMisuse]_vars

\* Pools of every entry size, those smaller than the link word included.
SpecSizes == InitSizes /\ [][Next]_vars

\* ------------------------------------------------------------------
\* The pool's life: construction that finds no block, out-of-range
\* arguments of deallocate, destruction
\* ------------------------------------------------------------------

\* Addresses outside the block: null, the byte before the block, the byte
\* after its last one.
OutOfBlock == {NULL, pool_mem_ - 1, pool_mem_ + BlockSize}

\* Forget the record of the runs of calls: the pool's life ends with this
\* call.
EndOfCalls ==
    /\ ret' = NULL
    /\ cyc' = "mixed"
    /\ run' = << >>
    /\ freedRun' = << >>
    /\ reallocRun' = << >>
    /\ nfail' = 0
    /\ s_ret' = NULL

\* Contract violation: deallocate(ptr) with an address outside the block
\* (a build with asserts enabled).
DeallocateOutOfRange ==
    /\ status = "live"
    /\ \E ptr \in OutOfBlock :
          /\ DeallocateCall(ptr)
          /\ lastOp' = "deallocate"
          /\ lastArg' = ptr
          /\ snap' = Fields
          /\ EndOfCalls
          /\ UNCHANGED <<held, misuse, pc, freed_blocks>>

destructor_unchecked ==
    [status |-> "destroyed", freed |-> freed_blocks + 1]

\* ~MemoryPoolBase(): the assert, then free_block(pool_mem_).
destructor ==
    IF num_free_entries_ = max_entries_
    THEN [status |-> "destroyed", freed |-> freed_blocks + 1]
    ELSE [status |-> "aborted", freed |-> freed_blocks]

\* The pool goes out of scope, whatever the caller still holds.
Destroy ==
    /\ status = "live"
    /\ LET d == destructor IN
          /\ status' = d.status
          /\ freed_blocks' = d.freed
    /\ lastOp' = "destroy"
    /\ lastArg' = NULL
    /\ snap' = NoSnap
    /\ EndOfCalls
    /\ UNCHANGED <<max_entries_, entry_size_, num_free_entries_, pool_mem_,
                   next_free_, mem, held, misuse, s_head, s_count, s_next, pc, spill>>

NextLife == Allocate \/ Deallocate \/ Store \/ DeallocateOutOfRange \/ Destroy

SpecLife == InitLife /\ [][NextLife]_vars

\* ------------------------------------------------------------------
\* Typed pool: construct (new_object) and destroy (delete_object)
\* ------------------------------------------------------------------

Idle == <<"idle">>

\* The objects of the typed pool: the entries holding a constructed T.
Objects == {p \in Live : held[p] # NoVal}

\* construct(), first part: the raw allocate(); null is handed on.
NewObjectAllocate ==
    /\ pc = Idle
    /\ AllocateCall
    /\ pc' = IF status' = "live" /\ ret' # NULL THEN <<"construct", ret'>> ELSE Idle
    /\ UNCHANGED freed_blocks

\* construct(), second part: T is constructed in the entry.
NewObjectConstruct ==
    /\ status = "live"
    /\ Len(pc) = 2 /\ pc[1] = "construct"
    /\ \E v \in Vals :
          /\ mem' = WriteWord(mem, pc[2] - pool_mem_, v)
          /\ held' = [held EXCEPT ![pc[2]] = <<v>>]
    /\ pc' = Idle
    /\ UNCHANGED <<max_entries_, entry_size_, num_free_entries_, pool_mem_,
                   next_free_, status, ret, lastOp, lastArg, cyc, run, freedRun,
                   reallocRun, nfail, snap, misuse, ref, freed_blocks, spill>>

\* destroy(ptr), first part: T's teardown runs on the entry. The caller
\* passes one of its objects, or null as the test "Iterate full blocks"
\* does.
DeleteObjectDestroy ==
    /\ status = "live"
    /\ pc = Idle
    /\ \E ptr \in Objects \cup {NULL} :
          /\ held' = IF ptr = NULL THEN held ELSE [held EXCEPT ![ptr] = NoVal]
          /\ pc' = <<"deallocate", ptr>>
          /\ snap' = IF ptr = NULL THEN Fields ELSE snap
    /\ UNCHANGED <<prog, ret, lastOp, lastArg, cyc, run, freedRun, reallocRun,
                   nfail, misuse, ref, freed_blocks, spill>>

\* destroy(ptr), second part: the raw deallocate() on the same address.
DeleteObjectDeallocate ==
    /\ status = "live"
    /\ Len(pc) = 2 /\ pc[1] = "deallocate"
    /\ DeallocateHeld(pc[2])
    /\ pc' = Idle
    /\ UNCHANGED freed_blocks

NextTyped ==
    NewObjectAllocate \/ NewObjectConstruct \/ DeleteObjectDestroy \/ DeleteObjectDeallocate

SpecTyped == Init /\ [][NextTyped]_vars

\* ------------------------------------------------------------------
\* Properties
\* ------------------------------------------------------------------

\* A step in which allocate() handed out an entry.
AllocStep == num_free_entries_' < num_free_entries_

Distinct(seq, n) == \A i, j \in 1 .. n : i # j => seq[i] # seq[j]

Min(a, b) == IF a < b THEN a ELSE b

\* C1 (capacity bound): of the allocate() calls made on a fresh pool with no
\* other call in between, the first max_entries_ return non-null, the next
\* returns null, and get_stats().allocation_count is then max_entries_.
C1_CapacityBound ==
    cyc = "fill" =>
        /\ \A i \in 1 .. Len(run) :
              /\ i <= max_entries_ => run[i] # NULL
              /\ i > max_entries_ => run[i] = NULL
        /\ Len(run) >= max_entries_ => get_stats.allocation_count = max_entries_

C1_Witness ==
    /\ cyc = "fill"
    /\ max_entries_ = MaxEntries
    /\ Len(run) = max_entries_ + 1

\* C2 (range and distinctness): every address the caller holds is a slot
\* address block + i * entry_size with 0 <= i < capacity, and a step in which
\* allocate() hands out an entry returns a slot address that the caller did
\* not hold before the step.
C2_RangeDistinct ==
    [][/\ Live \subseteq Slots
       /\ AllocStep => (ret' \in Slots /\ ret' \notin Live)]_vars

C2_Witness ==
    /\ cyc = "mixed"
    /\ lastOp = "allocate"
    /\ ret \in Slots \ {pool_mem_}
    /\ Cardinality(Live) = max_entries_
    /\ max_entries_ = MaxEntries

C4_LifoReuse ==
    [][(lastOp = "deallocate" /\ lastOp' = "allocate") => ret' = lastArg]_vars

C4_Witness ==
    /\ lastOp = "allocate"
    /\ freedRun # << >>
    /\ Len(reallocRun) = 1
    /\ ret = freedRun[Len(freedRun)]
    /\ Live # {ret}

\* C5 (reverse-order reuse): after k entries were deallocated in the order
\* a1 .. ak with no allocation in between, the j-th of the next k allocate()
\* calls returns a(k+1-j).
C5_ReverseOrderReuse ==
    /\ Len(reallocRun) <= Len(freedRun)
    /\ \A j \in 1 .. Len(reallocRun) :
          reallocRun[j] = freedRun[Len(freedRun) + 1 - j]

C5_Witness ==
    /\ Len(freedRun) = MaxEntries
    /\ Len(reallocRun) = Len(freedRun)
    /\ freedRun[1] = pool_mem_

\* C6 (conservation): 0 <= free count <= capacity, allocation_count is
\* capacity - free count and is the number of entries the caller holds
\* (successful allocations minus deallocations), and block_count is 1.
C6_Conservation ==
    /\ num_free_entries_ >= 0
    /\ num_free_entries_ <= max_entries_
    /\ get_stats.allocation_count + num_free_entries_ = max_entries_
    /\ get_stats.allocation_count = Cardinality(Live)
    /\ get_stats.block_count = 1

C6_Witness ==
    /\ lastOp = "deallocate"
    /\ max_entries_ = MaxEntries
    /\ Cardinality(Live) = MaxEntries - 1
    /\ get_stats.allocation_count = MaxEntries - 1
    /\ num_free_entries_ = 1

\* C7 (full cycle): once all entries were allocated and then all of them
\* deallocated, in any order, allocation_count is 0, and of the allocate()
\* calls that follow the first max_entries_ return pairwise distinct slot
\* addresses and the next returns null.
C7_FullCycle ==
    /\ (cyc = "drain" /\ Live = {}) => get_stats.allocation_count = 0
    /\ cyc = "refill" =>
          /\ \A i \in 1 .. Len(run) :
                /\ i <= max_entries_ => run[i] \in Slots
                /\ i > max_entries_ => run[i] = NULL
          /\ Distinct(run, Min(Len(run), max_entries_))

C7_Witness ==
    /\ cyc = "refill"
    /\ max_entries_ = MaxEntries
    /\ Len(run) = max_entries_ + 1
    /\ run[1] # pool_mem_

\* C8 (content preservation): the value the caller stored in an entry it
\* holds is still there, whatever allocate() calls and deallocate() calls of
\* other entries came after the store; and the entry whose link the next
\* allocate() reads is one the caller does not hold.
C8_ContentPreserved ==
    /\ Live \subseteq Slots
    /\ \A p \in Live : held[p] # NoVal => <<ReadWord(mem, p - pool_mem_)>> = held[p]
    /\ num_free_entries_ > 0 => next_free_ \in Slots \ Live

C8_Witness ==
    /\ lastOp = "deallocate"
    /\ pool_mem_ \in Live
    /\ held[pool_mem_] = <<1>>
    /\ num_free_entries_ = MaxEntries - 1
    /\ freedRun # << >>
    /\ reallocRun = << >>

\* C9 (exhaustion has no side effect): after one or more allocate() calls on
\* a pool with no free entry, each returned null, and the free count, the
\* free-list head and the block are what they were before the first of them.
C9_ExhaustionNoEffect ==
    nfail > 0 =>
        /\ lastOp = "allocate"
        /\ ret = NULL
        /\ snap.num = 0
        /\ Fields = snap

C9_Witness ==
    /\ nfail = MaxFail
    /\ max_entries_ = MaxEntries
    /\ \E p \in Live : held[p] # NoVal

\* C10 (double-free detection): a deallocate() of an in-range address the
\* caller does not hold is stopped by the assert, so the free count never
\* exceeds the capacity.
C10_DoubleFreeCaught ==
    /\ misuse > 0 => status = "aborted"
    /\ num_free_entries_ <= max_entries_

\* C16 (fresh-pool order): right after construction the free count is the
\* capacity, the head is entry 0 and entry i stores i + 1 (the last entry
\* the capacity); the allocations of a fresh pool return entries 0, 1, ...
\* in ascending order, each one entry_size after the one before.
C16_FreshPoolOrder ==
    /\ lastOp = "construct" =>
          /\ num_free_entries_ = max_entries_
          /\ next_free_ = element_at(0)
          /\ \A i \in 0 .. max_entries_ - 1 : ReadWord(mem, i * entry_size_) = i + 1
    /\ cyc = "fill" =>
          \A i \in 1 .. Min(Len(run), max_entries_) :
             run[i] = pool_mem_ + (i - 1) * entry_size_

C16_Witness ==
    /\ cyc = "fill"
    /\ max_entries_ = MaxEntries
    /\ Len(run) = MaxEntries
    /\ run[MaxEntries] = run[1] + (MaxEntries - 1) * entry_size_
    /\ \E p \in Live : held[p] # NoVal

\* The entries met by following the stored links from ptr, at most fuel of
\* them, up to the entry whose link is the end mark max_entries_.
RECURSIVE ChainFrom(_, _)
ChainFrom(ptr, fuel) ==
    IF fuel = 0 \/ ~Deref(ptr) THEN << >>
    ELSE LET link == ReadWord(mem, ptr - pool_mem_) IN
         <<ptr>> \o (IF link = max_entries_ THEN << >>
                     ELSE ChainFrom(element_at(link), fuel - 1))

FreeChain == IF next_free_ = NULL THEN << >> ELSE ChainFrom(next_free_, max_entries_ + 1)

\* C17 (free-chain invariant): following the stored links from the free
\* head reaches the end mark after exactly num_free_entries_ entries, meets
\* no entry twice, and meets exactly the entries the caller does not hold.
C17_FreeChain ==
    /\ Len(FreeChain) = num_free_entries_
    /\ Distinct(FreeChain, Len(FreeChain))
    /\ {FreeChain[i] : i \in 1 .. Len(FreeChain)} = Slots \ Live
    /\ num_free_entries_ > 0 =>
          ReadWord(mem, FreeChain[Len(FreeChain)] - pool_mem_) = max_entries_

C17_Witness ==
    /\ cyc = "drain"
    /\ max_entries_ = MaxEntries
    /\ Len(FreeChain) = MaxEntries
    /\ FreeChain[1] # pool_mem_

\* C18: the pool with a pointer head that is null on an empty list and the
\* reference pool with an index head that is capacity on an empty list
\* agree after every sequence of allocate() and valid deallocate() calls:
\* same returned entry, same count and stats, same head, same links in the
\* free entries; and the pointer head is null exactly when no entry is
\* free, exactly when the index head is capacity.
C18_RepresentationEquivalence ==
    /\ s_ret = ret
    /\ s_count = num_free_entries_
    /\ spec_get_stats = get_stats
    /\ s_head = IF next_free_ = NULL THEN max_entries_ ELSE index_of(next_free_)
    /\ (next_free_ = NULL) <=> (num_free_entries_ = 0)
    /\ (num_free_entries_ = 0) <=> (s_head = max_entries_)
    /\ DOMAIN s_next = {i \in 0 .. max_entries_ - 1 : address_of(i) \notin Live}
    /\ \A i \in DOMAIN s_next : s_next[i] = ReadWord(mem, i * entry_size_)

C18_Witness == lastOp = "allocate" /\ cyc = "refill" /\ max_entries_ = MaxEntries
               /\ num_free_entries_ = 0 /\ next_free_ = NULL
               /\ s_head = max_entries_ /\ s_ret # NULL

\* C11: after deallocate(p) with p outside [block, block + capacity *
\* entry_size) the assert has failed and the free count, the head and every
\* byte of the block are what they were before the call.
C11_OutOfRangeDetected ==
    (/\ lastOp = "deallocate"
     /\ \/ lastArg < pool_mem_
        \/ lastArg >= pool_mem_ + max_entries_ * entry_size_)
    => /\ status = "aborted"
       /\ Fields = snap
       /\ s_count = num_free_entries_

C11_Witness == lastOp = "deallocate" /\ status = "aborted"
               /\ lastArg = pool_mem_ + max_entries_ * entry_size_
               /\ Live # {} /\ max_entries_ = MaxEntries /\ next_free_ # pool_mem_

\* C12: the block is released once when the pool is destroyed with every
\* entry free, and never otherwise: a released block means the destructor
\* ran with free count = capacity, and a destructor that ran while an entry
\* was live failed its assert and released nothing.
C12_DestructionProtocol ==
    /\ freed_blocks = IF status = "destroyed" THEN 1 ELSE 0
    /\ status = "destroyed" =>
          /\ lastOp = "destroy"
          /\ num_free_entries_ = max_entries_
          /\ Live = {}
    /\ (lastOp = "destroy" /\ Live # {}) =>
          /\ status = "aborted"
          /\ freed_blocks = 0

C12_Witness == lastOp = "destroy" /\ status = "aborted" /\ freed_blocks = 0
               /\ Cardinality(Live) = MaxEntries

\* C13 as stated: a pool constructed when no block could be obtained is
\* marked failed, so no pool has a null block and a status other than
\* "failed". (The constructor has no such check.)
C13_ConstructionFailureSurfaced == pool_mem_ = NULL => status = "failed"

\* C14 as stated: destroy(null) on the typed pool changes nothing: the
\* pool stays live and the count, the head and the block are as before.
C14_NullDeleteNoOp ==
    (lastOp = "deallocate" /\ lastArg = NULL) => (status = "live" /\ Fields = snap)

C19_LinkFitsSlot == spill = {}

=============================================================================
